---------------------------- MODULE Spec2Model ----------------------------
(***************************************************************************)
(* A model of generate_assessment.py: the pipeline run by main (two image  *)
(* renderers, the document composer, the package assembler and the         *)
(* optional publisher git_init_and_push), the package directory and        *)
(* archive on disk, and the git repository the publisher drives.           *)
(*                                                                         *)
(* Paths are sequences of components below the root "/".  A text (a       *)
(* Python string) is the sequence of its newline-separated lines; a line   *)
(* is a record of its leading tag, an option label, the numerals that      *)
(* occur in it and the remaining literal text.                             *)
(***************************************************************************)
EXTENDS Integers, Sequences, FiniteSets, TLC

VARIABLES
  pc,            \* position of main: idle, images, spheres, docx, package,
                 \*   packaged, publishing, exited
  args,          \* parsed command line of the current run of main
  tree,          \* files on disk (absolute paths)
  zip,           \* github_repo.zip: [exists, entries]
  docx,          \* body of generated_assessment.docx (<<>> before it is written)
  readme,        \* text of github_repo/README.md (<<>> when absent)
  questions_md,  \* text of github_repo/QUESTIONS.md (<<>> when absent)
  spheres,       \* geometry of the last packed-spheres rendering
  call,          \* arguments of a make_packed_spheres_image call
  repo,          \* the git repository in github_repo/.git
  remote_ref,    \* branch -> commit on the remote (0: none)
  commit_seq,    \* commits created so far (gives every commit its identity)
  pubpc,         \* position of git_init_and_push
  inv,           \* the current (or last) publisher invocation
  log,           \* git commands run by the current publisher invocation
  exit_status,   \* exit status of the last run of main ("none" while running)
  hint,          \* whether main printed the "Git command failed" hint
  runLog,        \* what each completed package assembly produced
  removed,       \* paths deleted by the last rmtree of make_github_folder
  nMain,         \* runs of main started
  nDirect        \* direct publisher invocations started

vars == <<pc, args, tree, zip, docx, readme, questions_md, spheres, call, repo,
          remote_ref, commit_seq, pubpc, inv, log, exit_status, hint, runLog,
          removed, nMain, nDirect>>

(* Bounds of the model. *)
MaxRuns == 2
MaxDirect == 1
MaxRows == 3
MaxCols == 4

---------------------------------------------------------------------------
(* Sequences and paths. *)

Last(s) == s[Len(s)]

Front(s) == SubSeq(s, 1, Len(s) - 1)

Range(s) == {s[i] : i \in DOMAIN s}

RECURSIVE SetToSeq(_)
SetToSeq(S) ==
  IF S = {} THEN <<>>
  ELSE LET x == CHOOSE y \in S : TRUE IN <<x>> \o SetToSeq(S \ {x})

\* p lies strictly below directory d
IsUnder(d, p) == Len(p) > Len(d) /\ SubSeq(p, 1, Len(d)) = d

\* Path.absolute() of the --outdir argument (line 239)
base == <<"/", "assessment_output">>

\* base / "github_repo" (line 141)
repo_dir == base \o <<"github_repo">>

\* base / "github_repo.zip" (line 198)
zip_path == base \o <<"github_repo.zip">>

\* lines 242-244
img1 == base \o <<"uniform_table.png">>

img2 == base \o <<"rect_package_topview_8.png">>

docx_path == base \o <<"generated_assessment.docx">>

\* Path.relative_to
relative_to(p, d) == SubSeq(p, Len(d) + 1, Len(p))

\* Path.name
name(p) == Last(p)

\* a shutil.rmtree that deletes nothing
rmtree_keep(t, d) == t

\* shutil.rmtree that leaves dot-directories (such as .git) in place
rmtree_visible(t, d) == {p \in t : ~IsUnder(d, p) \/ relative_to(p, d)[1] = ".git"}

\* shutil.rmtree(d) (line 143): every file below d is gone
rmtree(t, d) == {p \in t : ~IsUnder(d, p)}

\* Path.exists() of a directory, seen through the files below it (lines 142, 220)
exists(t, d) == \E p \in t : IsUnder(d, p)

\* the files os.walk(d) yields (lines 202-204), in the order of the walk
walk(t, d) == SetToSeq({p \in t : IsUnder(d, p)})

\* arcname taken relative to the base directory: keeps the github_repo prefix
arcname_from_base(full, d) == relative_to(full, Front(d))

\* the archive entry name of a file (line 205)
arcname(full, d) == relative_to(full, d)

---------------------------------------------------------------------------
(* Texts. *)

L(tag, label, nums, text) ==
  [tag |-> tag, label |-> label, nums |-> nums, text |-> text]

EmptyLine == L("", "", <<>>, "")

\* the characters of a line, as written in the source
Raw(l) ==
  l.tag \o (IF l.label # "" THEN " (" \o l.label \o ")" ELSE "") \o l.text

JoinLine(x, y) ==
  IF x = EmptyLine THEN y
  ELSE [x EXCEPT !.text = x.text \o Raw(y), !.nums = x.nums \o y.nums]

\* string concatenation: the last line of a runs on into the first line of b
ConcatText(a, b) == Front(a) \o <<JoinLine(Last(a), Head(b))>> \o Tail(b)

RECURSIVE ConcatAll(_)
ConcatAll(fs) ==
  IF Len(fs) = 1 THEN fs[1] ELSE ConcatText(fs[1], ConcatAll(Tail(fs)))

\* python-docx calls of create_docx
add_heading(segs) == [kind |-> "heading", image |-> "", segs |-> segs]

add_paragraph(segs) == [kind |-> "paragraph", image |-> "", segs |-> segs]

add_picture(img) == [kind |-> "picture", image |-> img, segs |-> <<>>]

(* The body of the document, one element per add_heading / add_paragraph /
   add_picture call of create_docx, in call order (src lines 95-135). *)
create_docx_body ==
  <<
    \* line 95
    add_heading(
     <<L("", "", <<>>,
        "Generated Assessment Questions")>>),
    \* line 96
    add_paragraph(
     <<L("@title", "", <<>>,
        " Central Middle {U+2014} Derived Assessment")>>),
    \* line 97
    add_paragraph(
     <<L("@description", "", <<>>,
        " Two generated quantitative math questions similar to the base examples.")>>),
    \* line 99
    add_paragraph(
     <<L("", "", <<>>,
        ""),
      L("//", "", <<>>,
        " Use this block for each question when adding Multiple Choice Questions (MCQ)")>>),
    \* line 102
    add_paragraph(
     <<L("", "", <<>>,
        ""),
      L("@question", "", <<1, 1, 1>>,
        " Each student at Riverside Prep chooses a uniform consisting of 1 shirt, 1 pair of pants, and 1 hat. The table shows the available options for each item. How many different complete uniforms are possible?")>>),
    \* line 103
    add_paragraph(
     <<L("@instruction", "", <<>>,
        " Select the number of possible uniform combinations from the options.")>>),
    \* line 104
    add_paragraph(
     <<L("@difficulty", "", <<>>,
        " easy")>>),
    \* line 105
    add_paragraph(
     <<L("@Order", "", <<1>>,
        " 1")>>),
    \* line 106
    add_paragraph(
     <<L("@option", "A", <<18>>,
        " 18")>>),
    \* line 107
    add_paragraph(
     <<L("@option", "B", <<24>>,
        " 24")>>),
    \* line 108
    add_paragraph(
     <<L("@@option", "C", <<36>>,
        " 36")>>),
    \* line 109
    add_paragraph(
     <<L("@option", "D", <<48>>,
        " 48")>>),
    \* line 110
    add_paragraph(
     <<L("@option", "E", <<72>>,
        " 72")>>),
    \* line 111
    add_paragraph(
     <<L("@explanation", "", <<>>,
        " ")>>),
    \* line 112
    add_paragraph(
     <<L("", "", <<4, 3, 3, 4, 3, 3, 36>>,
        "There are 4 shirt choices, 3 pants choices, and 3 hat choices. Total combinations = 4 {U+00D7} 3 {U+00D7} 3 = 36.")>>),
    \* line 113
    add_paragraph(
     <<L("@subject", "", <<>>,
        " Quantitative Math")>>),
    \* line 114
    add_paragraph(
     <<L("@unit", "", <<>>,
        " Numbers and Operations")>>),
    \* line 115
    add_paragraph(
     <<L("@topic", "", <<>>,
        " Combinations / Counting")>>),
    \* line 116
    add_paragraph(
     <<L("@plusmarks", "", <<1>>,
        " 1")>>),
    \* line 117
    add_picture("img1"),
    \* line 120
    add_paragraph(
     <<L("", "", <<>>,
        ""),
      L("@question", "", <<8, 2>>,
        " The top view of a rectangular box containing 8 identical tightly packed spherical balls arranged in two rows of four is shown. If each ball has radius $2$ cm, which of the following is closest to the dimensions (height {U+00D7} width {U+00D7} length), in centimeters, of the rectangular package?")>>),
    \* line 121
    add_paragraph(
     <<L("@instruction", "", <<>>,
        " Choose the correct dimensions from the options.")>>),
    \* line 122
    add_paragraph(
     <<L("@difficulty", "", <<>>,
        " moderate")>>),
    \* line 123
    add_paragraph(
     <<L("@Order", "", <<2>>,
        " 2")>>),
    \* line 124
    add_paragraph(
     <<L("@option", "A", <<4, 8, 16>>,
        " $4 \\times 8 \\times 16$")>>),
    \* line 125
    add_paragraph(
     <<L("@option", "B", <<2, 8, 16>>,
        " $2 \\times 8 \\times 16$")>>),
    \* line 126
    add_paragraph(
     <<L("@@option", "C", <<4, 12, 18>>,
        " $4 \\times 12 \\times 18$")>>),
    \* line 127
    add_paragraph(
     <<L("@option", "D", <<6, 8, 16>>,
        " $6 \\times 8 \\times 16$")>>),
    \* line 128
    add_paragraph(
     <<L("@option", "E", <<8, 12, 24>>,
        " $8 \\times 12 \\times 24$")>>),
    \* line 129
    add_paragraph(
     <<L("@explanation", "", <<>>,
        " ")>>),
    \* line 130
    add_paragraph(
     <<L("", "", <<4, 2, 4, 8, 4, 4, 16, 4, 4, 8, 16>>,
        "Top view shows two rows and four columns of circles (diameter = 4 cm). Width (short side) = 2 rows {U+00D7} 4 cm = 8 cm. Length = 4 columns {U+00D7} 4 cm = 16 cm. Height must accommodate one layer of balls: diameter = 4 cm. So dimensions: $4 \\times 8 \\times 16$.")>>),
    \* line 131
    add_paragraph(
     <<L("@subject", "", <<>>,
        " Quantitative Math")>>),
    \* line 132
    add_paragraph(
     <<L("@unit", "", <<>>,
        " Geometry and Measurement")>>),
    \* line 133
    add_paragraph(
     <<L("@topic", "", <<>>,
        " Solid Figures / Coordinate Geometry")>>),
    \* line 134
    add_paragraph(
     <<L("@plusmarks", "", <<1>>,
        " 1")>>),
    \* line 135
    add_picture("img2")
  >>

(* The text written to README.md (src line 153). *)
README_text ==
  <<L("", "", <<>>,
        "# Generated Assessment Questions"),
    L("", "", <<>>,
        ""),
    L("", "", <<>>,
        "This repository contains two generated quantitative math questions in the requested Question Output Format, plus images."),
    L("", "", <<>>,
        "")>>

(* The adjacent string literals of the QUESTIONS.md text, one per source line
   (src lines 157-190); Python concatenates them into one string. *)
QUESTIONS_fragments ==
  <<
    \* line 157
    <<L("@title", "", <<>>,
        " Central Middle {U+2014} Derived Assessment"),
      L("", "", <<>>,
        "")>>,
    \* line 158
    <<L("@description", "", <<>>,
        " Two generated quantitative math questions similar to the base examples."),
      L("", "", <<>>,
        ""),
      L("", "", <<>>,
        "")>>,
    \* line 159
    <<L("//", "", <<1>>,
        " Question 1"),
      L("", "", <<>>,
        "")>>,
    \* line 160
    <<L("@question", "", <<1, 1, 1>>,
        " Each student at Riverside Prep chooses a uniform consisting of 1 shirt, 1 pair of pants, and 1 hat. The table shows the available options for each item. How many different complete uniforms are possible?"),
      L("", "", <<>>,
        "")>>,
    \* line 161
    <<L("@instruction", "", <<>>,
        " Select the number of possible uniform combinations from the options."),
      L("", "", <<>>,
        "")>>,
    \* line 162
    <<L("@difficulty", "", <<>>,
        " easy"),
      L("", "", <<>>,
        "")>>,
    \* line 163
    <<L("@Order", "", <<1>>,
        " 1"),
      L("", "", <<>>,
        "")>>,
    \* line 164
    <<L("@option", "A", <<18>>,
        " 18"),
      L("", "", <<>>,
        "")>>,
    \* line 165
    <<L("@option", "B", <<24>>,
        " 24"),
      L("", "", <<>>,
        "")>>,
    \* line 166
    <<L("@@option", "C", <<36>>,
        " 36"),
      L("", "", <<>>,
        "")>>,
    \* line 167
    <<L("@option", "D", <<48>>,
        " 48"),
      L("", "", <<>>,
        "")>>,
    \* line 168
    <<L("@option", "E", <<72>>,
        " 72"),
      L("", "", <<>>,
        "")>>,
    \* line 169
    <<L("@explanation", "", <<>>,
        " "),
      L("", "", <<>>,
        "")>>,
    \* line 170
    <<L("", "", <<4, 3, 3, 4, 3, 3, 36>>,
        "There are 4 shirt choices, 3 pants choices, and 3 hat choices. Total combinations = 4 {U+00D7} 3 {U+00D7} 3 = 36."),
      L("", "", <<>>,
        "")>>,
    \* line 171
    <<L("@subject", "", <<>>,
        " Quantitative Math"),
      L("", "", <<>>,
        "")>>,
    \* line 172
    <<L("@unit", "", <<>>,
        " Numbers and Operations"),
      L("", "", <<>>,
        "")>>,
    \* line 173
    <<L("@topic", "", <<>>,
        " Combinations / Counting"),
      L("", "", <<>>,
        "")>>,
    \* line 174
    <<L("@plusmarks", "", <<1>>,
        " 1"),
      L("", "", <<>>,
        ""),
      L("", "", <<>>,
        "")>>,
    \* line 175
    <<L("//", "", <<2>>,
        " Question 2"),
      L("", "", <<>>,
        "")>>,
    \* line 176
    <<L("@question", "", <<8, 2>>,
        " The top view of a rectangular box containing 8 identical tightly packed spherical balls arranged in two rows of four is shown. If each ball has radius $2$ cm, which of the following is closest to the dimensions (height {U+00D7} width {U+00D7} length), in centimeters, of the rectangular package?"),
      L("", "", <<>>,
        "")>>,
    \* line 177
    <<L("@instruction", "", <<>>,
        " Choose the correct dimensions from the options."),
      L("", "", <<>>,
        "")>>,
    \* line 178
    <<L("@difficulty", "", <<>>,
        " moderate"),
      L("", "", <<>>,
        "")>>,
    \* line 179
    <<L("@Order", "", <<2>>,
        " 2"),
      L("", "", <<>>,
        "")>>,
    \* line 180
    <<L("@option", "A", <<4, 8, 16>>,
        " $4 \\times 8 \\times 16$"),
      L("", "", <<>>,
        "")>>,
    \* line 181
    <<L("@option", "B", <<2, 8, 16>>,
        " $2 \\times 8 \\times 16$"),
      L("", "", <<>>,
        "")>>,
    \* line 182
    <<L("@@option", "C", <<4, 12, 18>>,
        " $4 \\times 12 \\times 18$"),
      L("", "", <<>>,
        "")>>,
    \* line 183
    <<L("@option", "D", <<6, 8, 16>>,
        " $6 \\times 8 \\times 16$"),
      L("", "", <<>>,
        "")>>,
    \* line 184
    <<L("@option", "E", <<8, 12, 24>>,
        " $8 \\times 12 \\times 24$"),
      L("", "", <<>>,
        "")>>,
    \* line 185
    <<L("@explanation", "", <<>>,
        " "),
      L("", "", <<>>,
        "")>>,
    \* line 186
    <<L("", "", <<4, 2, 4, 8, 4, 4, 16, 4, 4, 8, 16>>,
        "Top view shows two rows and four columns of circles (diameter = 4 cm). Width (short side) = 2 rows {U+00D7} 4 cm = 8 cm. Length = 4 columns {U+00D7} 4 cm = 16 cm. Height must accommodate one layer of balls: diameter = 4 cm. So dimensions: $4 \\times 8 \\times 16$."),
      L("", "", <<>>,
        "")>>,
    \* line 187
    <<L("@subject", "", <<>>,
        " Quantitative Math"),
      L("", "", <<>>,
        "")>>,
    \* line 188
    <<L("@unit", "", <<>>,
        " Geometry and Measurement"),
      L("", "", <<>>,
        "")>>,
    \* line 189
    <<L("@topic", "", <<>>,
        " Solid Figures / Coordinate Geometry"),
      L("", "", <<>>,
        "")>>,
    \* line 190
    <<L("@plusmarks", "", <<1>>,
        " 1"),
      L("", "", <<>>,
        "")>>
  >>
\* the text with the two @Order lines left out of the transcription
QUESTIONS_text_without_order ==
  ConcatAll(SelectSeq(QUESTIONS_fragments, LAMBDA f : f[1].tag # "@Order"))

\* the string written to QUESTIONS.md: the concatenation of the literals of
\* lines 157-190 (lines 155-192)
QUESTIONS_text == ConcatAll(QUESTIONS_fragments)

\* the lines of a text file: what splitting at newlines gives, blank lines dropped
TextLines(text) == SelectSeq(text, LAMBDA l : l # EmptyLine)

RECURSIVE ParagraphLines(_)
ParagraphLines(body) ==
  IF body = <<>> THEN <<>>
  ELSE (IF Head(body).kind = "paragraph" THEN Head(body).segs ELSE <<>>)
       \o ParagraphLines(Tail(body))

\* the lines of the document's paragraphs (a newline inside a paragraph is a
\* line break), blank lines dropped
DocLines(body) == TextLines(ParagraphLines(body))

\* positions of the lines carrying tag t
TagPositions(lines, t) == {i \in DOMAIN lines : lines[i].tag = t}

\* the k-th smallest element of a set of numbers
Nth(S, k) == CHOOSE x \in S : Cardinality({y \in S : y < x}) = k - 1

\* the q-th question record: from its @question line to its @plusmarks line
QuestionBlock(lines, q) ==
  LET first == Nth(TagPositions(lines, "@question"), q)
      last == CHOOSE j \in TagPositions(lines, "@plusmarks") :
                /\ j > first
                /\ \A k \in TagPositions(lines, "@plusmarks") : k > first => j <= k
  IN SubSeq(lines, first, last)

OptionLines(block) ==
  SelectSeq(block, LAMBDA l : l.tag \in {"@option", "@@option"})

CorrectOptions(block) == SelectSeq(block, LAMBDA l : l.tag = "@@option")

---------------------------------------------------------------------------
(* Image Renderer A: the three option lists (lines 40-42). *)

shirts == <<"Tan", "Red", "White", "Yellow">>

pants == <<"Black", "Khaki", "Navy">>

hats == <<"Blue", "Green", "Brown">>

---------------------------------------------------------------------------
(* Image Renderer B.  Lengths in centimetres are carried in hundredths      *)
(* (radius 200 is 2 cm); pixel coordinates of the circles are carried in    *)
(* hundredths of a pixel, so that int() of line 73 truncates something.     *)

\* pixels per cm (line 70)
scale == 30

\* dpi of the figure (line 76)
dpi == 100

\* pad_inches of savefig, in hundredths of an inch (line 89)
pad_inches == 2

RadiusValues == {7, 50, 100, 200, 250, 300}

\* a circle centre that leaves out the r_px offset
center_no_offset(k, radius_cm) == k * (2 * radius_cm) * scale

\* cx, cy of lines 79-80, in hundredths of a pixel
center(k, radius_cm) == (k * (2 * radius_cm) * scale) + radius_cm * scale

\* width_px, height_px of lines 73-74: int(n * diameter * scale)
extent_px(n, radius_cm) == (n * (2 * radius_cm) * scale) \div 100

\* the picture make_packed_spheres_image draws and saves (lines 70-90)
packed_spheres(rows, cols, radius_cm) ==
  LET width_px == extent_px(cols, radius_cm)
      height_px == extent_px(rows, radius_cm)
      pad_px == (pad_inches * dpi) \div 100
  IN [drawn |-> TRUE,
      width_px |-> width_px,
      height_px |-> height_px,
      \* plt.Circle((cx, cy), r_px) for i in range(rows), j in range(cols)
      circles |-> {[i |-> i, j |-> j,
                    cx |-> center(j, radius_cm),
                    cy |-> center(i, radius_cm),
                    r |-> radius_cm * scale] :
                   i \in 0 .. rows - 1, j \in 0 .. cols - 1},
      \* ax.set_xlim(0, width_px), ax.set_ylim(0, height_px)
      xlim |-> width_px,
      ylim |-> height_px,
      \* savefig(bbox_inches='tight', pad_inches=0.02): the figure's box
      \* (the axes fill it, the circles are clipped to it) padded on each side
      saved_w |-> width_px + 2 * pad_px,
      saved_h |-> height_px + 2 * pad_px]

NoImage ==
  [drawn |-> FALSE, width_px |-> 0, height_px |-> 0, circles |-> {},
   xlim |-> 0, ylim |-> 0, saved_w |-> 0, saved_h |-> 0]

---------------------------------------------------------------------------
(* The git repository and the commands of the publisher. *)

Branches == {"main"}

RemoteUrl == "git@host:repo.git"

\* the commands of git_init_and_push in the order of lines 221-229
StepOrder ==
  <<"init", "checkout", "add", "commit", "remote", "remote_remove",
    "remote_add", "push">>

Steps == Range(StepOrder)

StepIndex(c) == CHOOSE i \in DOMAIN StepOrder : StepOrder[i] = c

git_dir == repo_dir \o <<".git">>

git_head == git_dir \o <<"HEAD">>

EmptyRepo ==
  [branch |-> "", index |-> {}, head |-> 0, headTree |-> {}, history |-> {},
   origin |-> "", upstream |-> ""]

\* the files git sees in the package directory (everything outside .git)
Worktree(t) ==
  {relative_to(p, repo_dir) : p \in {q \in t : IsUnder(repo_dir, q) /\ ~IsUnder(git_dir, q)}}

\* exit status of a git command; env_ok is whether the environment (identity,
\* network, credentials) lets it succeed
git_exit(cmd, r, refs, branch, env_ok) ==
  CASE ~env_ok -> 128
    [] cmd = "commit" /\ r.index = r.headTree -> 1       \* nothing to commit
    [] cmd = "remote_remove" /\ r.origin = "" -> 2       \* No such remote
    [] cmd = "remote_add" /\ r.origin # "" -> 3          \* remote already exists
    [] cmd = "push" /\ refs[branch] \notin ({0} \cup r.history) -> 1  \* rejected
    [] OTHER -> 0

\* what a successful git command changes
git_effect(cmd, t, r, refs, seq, branch, url) ==
  LET same == [tree |-> t, repo |-> r, refs |-> refs, seq |-> seq] IN
  CASE cmd = "init" -> [same EXCEPT !.tree = t \cup {git_head}, !.repo = EmptyRepo]
    [] cmd = "checkout" -> [same EXCEPT !.repo = [r EXCEPT !.branch = branch]]
    [] cmd = "add" -> [same EXCEPT !.repo = [r EXCEPT !.index = Worktree(t)]]
    [] cmd = "commit" ->
         [same EXCEPT !.seq = seq + 1,
                      !.repo = [r EXCEPT !.head = seq + 1, !.headTree = r.index,
                                         !.history = r.history \cup {seq + 1}]]
    [] cmd = "remote_remove" -> [same EXCEPT !.repo = [r EXCEPT !.origin = ""]]
    [] cmd = "remote_add" -> [same EXCEPT !.repo = [r EXCEPT !.origin = url]]
    [] cmd = "push" ->
         [same EXCEPT !.refs = [refs EXCEPT ![branch] = r.head],
                      !.repo = [r EXCEPT !.upstream = branch]]
    [] OTHER -> same

\* subprocess.run without check=True: a non-zero exit raises nothing
run_unchecked(installed, rc) == IF ~installed THEN "FileNotFoundError" ELSE ""

\* run(cmd) of lines 215-217: subprocess.run(cmd, cwd=cwd, check=True)
run(installed, rc) ==
  IF ~installed THEN "FileNotFoundError"
  ELSE IF rc # 0 THEN "CalledProcessError"
  ELSE ""

\* except subprocess.CalledProcessError (line 266)
except_matches(e) == e = "CalledProcessError"

---------------------------------------------------------------------------
(* State. *)

fsVars == <<tree, zip, docx, readme, questions_md>>

gitVars == <<repo, remote_ref, commit_seq>>

pubVars == <<pubpc, inv, log>>

imgVars == <<spheres, call>>

outVars == <<exit_status, hint>>

histVars == <<runLog, removed>>

cntVars == <<nMain, nDirect>>

\* what a previous run, or the user, may have left at the target paths
StalePaths ==
  {repo_dir \o <<"stale.txt">>,
   repo_dir \o <<"images", "old.png">>,
   git_head}

\* files the user may drop into the package directory between runs
TamperPaths == {repo_dir \o <<"stale.txt">>}

NoInvocation ==
  [caller |-> "none", branch |-> "", url |-> "", git_installed |-> TRUE,
   fresh |-> FALSE, prevFailedAt |-> "", unchanged |-> FALSE, snapshot |-> {},
   failedAt |-> "", exc |-> ""]

NoCall == [rows |-> 0, cols |-> 0, radius_cm |-> 0]

Init ==
  /\ pc = "idle"
  /\ args = [push_repo |-> "", branch |-> "main"]
  /\ tree \in SUBSET StalePaths
  /\ zip \in {[exists |-> FALSE, entries |-> <<>>],
              [exists |-> TRUE, entries |-> <<<<"stale.txt">>, <<".git", "HEAD">>>>]}
  /\ docx = <<>>
  /\ readme = <<>>
  /\ questions_md = <<>>
  /\ spheres = NoImage
  /\ call = NoCall
  /\ repo = EmptyRepo
  /\ remote_ref = [b \in Branches |-> 0]
  /\ commit_seq = 0
  /\ pubpc = "idle"
  /\ inv = NoInvocation
  /\ log = <<>>
  /\ exit_status = "none"
  /\ hint = FALSE
  /\ runLog = <<>>
  /\ removed = {}
  /\ nMain = 0
  /\ nDirect = 0

PublisherRunning == pubpc \in Steps

---------------------------------------------------------------------------
(* main (lines 232-268). *)

\* lines 233-244: parse the arguments, create the output directory
main_begin ==
  /\ pc \in {"idle", "exited"}
  /\ ~PublisherRunning
  /\ nMain < MaxRuns
  /\ \E push \in BOOLEAN, b \in Branches :
       args' = [push_repo |-> IF push THEN RemoteUrl ELSE "", branch |-> b]
  /\ pc' = "images"
  /\ pubpc' = "idle"
  /\ log' = <<>>
  /\ exit_status' = "none"
  /\ hint' = FALSE
  /\ nMain' = nMain + 1
  \* a new process: of the last publisher invocation only its outcome is kept
  /\ inv' = [NoInvocation EXCEPT !.caller = inv.caller, !.failedAt = inv.failedAt,
                                 !.snapshot = inv.snapshot]
  /\ UNCHANGED <<fsVars, gitVars, imgVars, histVars, nDirect>>

\* line 247, lines 29-63: writes the table image
make_uniform_image ==
  /\ pc = "images"
  /\ tree' = tree \cup {img1}
  /\ pc' = "spheres"
  /\ UNCHANGED <<args, zip, docx, readme, questions_md, gitVars, pubVars,
                 imgVars, outVars, histVars, cntVars>>

\* line 248, lines 65-91: writes the packed-spheres image
make_packed_spheres_image ==
  /\ pc = "spheres"
  /\ call' = [rows |-> 2, cols |-> 4, radius_cm |-> 200]
  /\ spheres' = packed_spheres(2, 4, 200)
  /\ tree' = tree \cup {img2}
  /\ pc' = "docx"
  /\ UNCHANGED <<args, zip, docx, readme, questions_md, gitVars, pubVars,
                 outVars, histVars, cntVars>>

\* line 251, lines 93-138: writes the document
create_docx ==
  /\ pc = "docx"
  /\ {img1, img2} \subseteq tree
  /\ docx' = create_docx_body
  /\ tree' = tree \cup {docx_path}
  /\ pc' = "package"
  /\ UNCHANGED <<args, zip, readme, questions_md, gitVars, pubVars, imgVars,
                 outVars, histVars, cntVars>>

\* zip_path.unlink() (line 200)
unlink(z) == [exists |-> FALSE, entries |-> <<>>]

\* zf.write(full, arcname=...) for every walked file (lines 202-205)
RECURSIVE zf_write_all(_, _)
zf_write_all(z, files) ==
  IF files = <<>> THEN z
  ELSE zf_write_all([z EXCEPT !.entries = Append(@, arcname(Head(files), repo_dir))],
                    Tail(files))

\* lines 198-205: the old archive is unlinked, ZipFile(zip_path, "w") starts an
\* empty archive, and every file of the walk is written to it
write_zip(z, t) ==
  LET gone == IF z.exists THEN unlink(z) ELSE z
      opened == [gone EXCEPT !.exists = TRUE, !.entries = <<>>]
  IN zf_write_all(opened, walk(t, repo_dir))

\* line 254, lines 140-207: rebuilds the package directory and the archive
make_github_folder ==
  /\ pc = "package"
  /\ LET cleared == IF exists(tree, repo_dir) THEN rmtree(tree, repo_dir) ELSE tree
         images_dir == repo_dir \o <<"images">>
         built == cleared \cup
                    {images_dir \o <<name(img1)>>, images_dir \o <<name(img2)>>,
                     repo_dir \o <<"README.md">>, repo_dir \o <<"QUESTIONS.md">>,
                     repo_dir \o <<name(docx_path)>>}
         archive == write_zip(zip, built)
     IN /\ tree' = built
        /\ readme' = README_text
        /\ questions_md' = QUESTIONS_text
        /\ zip' = archive
        /\ repo' = IF exists(built, git_dir) THEN repo ELSE EmptyRepo
        /\ removed' = tree \ cleared
        /\ runLog' = Append(runLog, [readme |-> README_text,
                                     questions |-> QUESTIONS_text,
                                     entries |-> Range(archive.entries),
                                     push |-> args.push_repo # "",
                                     hadGit |-> exists(tree, git_dir)])
  /\ pc' = "packaged"
  /\ UNCHANGED <<args, docx, remote_ref, commit_seq, pubVars, imgVars, outVars,
                 cntVars>>

\* the state of git_init_and_push on entry (lines 209-217)
Invoke(who, branch, url, installed) ==
  /\ inv' = [caller |-> who, branch |-> branch, url |-> url,
             git_installed |-> installed,
             fresh |-> ~exists(tree, git_dir),
             prevFailedAt |-> inv.failedAt,
             unchanged |-> inv.caller # "none" /\ Worktree(tree) = inv.snapshot,
             snapshot |-> Worktree(tree),
             failedAt |-> "", exc |-> ""]
  /\ log' = <<>>
  /\ pubpc' = "init"

\* lines 256-261 with --push-repo absent: the summary, then a normal exit
main_no_push ==
  /\ pc = "packaged"
  /\ args.push_repo = ""
  /\ pc' = "exited"
  /\ exit_status' = "0"
  /\ removed' = {}
  /\ UNCHANGED <<args, fsVars, gitVars, pubVars, imgVars, hint, runLog, cntVars>>

\* lines 256-265 with --push-repo given: the summary, then the publisher
main_push ==
  /\ pc = "packaged"
  /\ args.push_repo # ""
  /\ \E installed \in BOOLEAN : Invoke("main", args.branch, args.push_repo, installed)
  /\ pc' = "publishing"
  /\ removed' = {}
  /\ UNCHANGED <<args, fsVars, gitVars, imgVars, outVars, runLog, cntVars>>

\* line 265 returned: main falls off its end
main_pushed ==
  /\ pc = "publishing"
  /\ pubpc = "returned"
  /\ pc' = "exited"
  /\ exit_status' = "0"
  /\ UNCHANGED <<args, fsVars, gitVars, pubVars, imgVars, hint, histVars, cntVars>>

\* lines 266-268: the handler prints the hint and re-raises; any other
\* exception passes the handler by; either way the process ends in error
main_except ==
  /\ pc = "publishing"
  /\ pubpc = "raised"
  /\ hint' = except_matches(inv.exc)
  /\ pc' = "exited"
  /\ exit_status' = "1"
  /\ UNCHANGED <<args, fsVars, gitVars, pubVars, imgVars, histVars, cntVars>>

---------------------------------------------------------------------------
(* git_init_and_push (lines 209-230). *)

\* one run(cmd): the command is logged, then either takes effect and control
\* moves on, or the exception leaves git_init_and_push
GitStep(cmd, next) ==
  /\ pubpc = cmd
  /\ \E env_ok \in BOOLEAN :
       LET rc == git_exit(cmd, repo, remote_ref, inv.branch, env_ok)
           e == run(inv.git_installed, rc)
           ok == inv.git_installed /\ rc = 0
           new == IF ok
                  THEN git_effect(cmd, tree, repo, remote_ref, commit_seq,
                                  inv.branch, inv.url)
                  ELSE [tree |-> tree, repo |-> repo, refs |-> remote_ref,
                        seq |-> commit_seq]
       IN /\ log' = Append(log, [cmd |-> cmd, ok |-> ok,
                                 env |-> env_ok /\ inv.git_installed, exc |-> e])
          /\ tree' = new.tree
          /\ repo' = new.repo
          /\ remote_ref' = new.refs
          /\ commit_seq' = new.seq
          /\ IF e = ""
             THEN pubpc' = next /\ inv' = inv
             ELSE pubpc' = "raised" /\ inv' = [inv EXCEPT !.exc = e, !.failedAt = cmd]
  /\ UNCHANGED <<pc, args, zip, docx, readme, questions_md, imgVars, outVars,
                 histVars, cntVars>>

\* lines 220-221: git init, unless .git is there
git_init ==
  \/ /\ ~exists(tree, git_dir)
     /\ GitStep("init", "checkout")
  \/ /\ pubpc = "init"
     /\ exists(tree, git_dir)
     /\ pubpc' = "checkout"
     /\ UNCHANGED <<pc, args, fsVars, gitVars, inv, log, imgVars, outVars,
                    histVars, cntVars>>

\* line 222
git_checkout == GitStep("checkout", "add")

\* line 223
git_add == GitStep("add", "commit")

\* line 224
git_commit == GitStep("commit", "remote")

\* line 225, the condition: subprocess.run(["git", "remote"], capture_output=True)
\* without check; its exit status chooses between remove and no remove
git_remote ==
  /\ pubpc = "remote"
  /\ \E env_ok \in BOOLEAN :
       LET rc == git_exit("remote", repo, remote_ref, inv.branch, env_ok)
           e == IF inv.git_installed THEN "" ELSE "FileNotFoundError"
       IN /\ log' = Append(log, [cmd |-> "remote", ok |-> inv.git_installed /\ rc = 0,
                                 env |-> env_ok /\ inv.git_installed, exc |-> e])
          /\ IF e # ""
             THEN pubpc' = "raised" /\ inv' = [inv EXCEPT !.exc = e, !.failedAt = "remote"]
             ELSE /\ pubpc' = IF rc = 0 THEN "remote_remove" ELSE "remote_add"
                  /\ inv' = inv
  /\ UNCHANGED <<pc, args, fsVars, gitVars, imgVars, outVars, histVars, cntVars>>

\* line 225, the run: git remote remove origin
git_remote_remove == GitStep("remote_remove", "remote_add")

\* line 227
git_remote_add == GitStep("remote_add", "push")

\* lines 229-230
git_push == GitStep("push", "returned")

\* git_init_and_push called again on the package directory main left behind
publisher_call ==
  /\ pc = "exited"
  /\ pubpc \in {"idle", "returned", "raised"}
  /\ nDirect < MaxDirect
  /\ \E b \in Branches, installed \in BOOLEAN : Invoke("direct", b, RemoteUrl, installed)
  /\ nDirect' = nDirect + 1
  /\ UNCHANGED <<pc, args, fsVars, gitVars, imgVars, outVars, histVars, nMain>>

\* the user drops a file into the package directory between runs
place_file ==
  /\ pc = "exited"
  /\ ~PublisherRunning
  /\ \E p \in TamperPaths \ tree : tree' = tree \cup {p}
  /\ UNCHANGED <<pc, args, zip, docx, readme, questions_md, gitVars, pubVars,
                 imgVars, outVars, histVars, cntVars>>

Next ==
  \/ main_begin
  \/ make_uniform_image
  \/ make_packed_spheres_image
  \/ create_docx
  \/ make_github_folder
  \/ main_no_push
  \/ main_push
  \/ main_pushed
  \/ main_except
  \/ git_init
  \/ git_checkout
  \/ git_add
  \/ git_commit
  \/ git_remote
  \/ git_remote_remove
  \/ git_remote_add
  \/ git_push
  \/ publisher_call
  \/ place_file

Spec == Init /\ [][Next]_vars

---------------------------------------------------------------------------
(* Image Renderer B on its own: make_packed_spheres_image called with       *)
(* arguments drawn from a range.                                            *)

ImgInit ==
  /\ call \in [rows : 1 .. MaxRows, cols : 1 .. MaxCols, radius_cm : RadiusValues]
  /\ spheres = NoImage
  /\ pc = "idle"
  /\ args = [push_repo |-> "", branch |-> "main"]
  /\ tree = {}
  /\ zip = [exists |-> FALSE, entries |-> <<>>]
  /\ docx = <<>>
  /\ readme = <<>>
  /\ questions_md = <<>>
  /\ repo = EmptyRepo
  /\ remote_ref = [b \in Branches |-> 0]
  /\ commit_seq = 0
  /\ pubpc = "idle"
  /\ inv = NoInvocation
  /\ log = <<>>
  /\ exit_status = "none"
  /\ hint = FALSE
  /\ runLog = <<>>
  /\ removed = {}
  /\ nMain = 0
  /\ nDirect = 0

\* lines 65-91 with the arguments of the call
render ==
  /\ ~spheres.drawn
  /\ spheres' = packed_spheres(call.rows, call.cols, call.radius_cm)
  /\ tree' = tree \cup {img2}
  /\ UNCHANGED <<pc, args, zip, docx, readme, questions_md, call, gitVars,
                 pubVars, outVars, histVars, cntVars>>

ImgNext == render

SpecImg == ImgInit /\ [][ImgNext]_vars

---------------------------------------------------------------------------
(* Properties. *)

PublisherEnded == pubpc \in {"returned", "raised"}

\* the environment let every command of the current invocation succeed
EnvAllowedAll == inv.git_installed /\ \A i \in DOMAIN log : log[i].env

LogCmds == [i \in DOMAIN log |-> log[i].cmd]

AfterCommit == {"remote", "remote_remove", "remote_add", "push"}

\* the steps the publisher's contract names
ContractSteps == Steps \ {"remote"}

\* the files one run of the package assembler writes
CurrentRunEntries ==
  {<<"README.md">>, <<"QUESTIONS.md">>, <<"generated_assessment.docx">>,
   <<"images", "uniform_table.png">>, <<"images", "rect_package_topview_8.png">>}

PackageFiles == {p \in tree : IsUnder(repo_dir, p)}

(* C1: a publisher invocation on a freshly built package directory, with the
   environment letting every git command succeed and a remote that accepts
   the push, runs init, checkout, add, commit, remote add and push in that
   order and ends in the pushed state. *)
C1_FreshPublishReachesPushed ==
  (/\ PublisherEnded
   /\ inv.fresh
   /\ EnvAllowedAll
   /\ remote_ref[inv.branch] \in {0} \cup repo.history)
  => /\ pubpc = "returned"
     /\ SelectSeq(LogCmds, LAMBDA c : c \notin {"remote", "remote_remove"})
          = <<"init", "checkout", "add", "commit", "remote_add", "push">>
     /\ \A i \in DOMAIN log : log[i].cmd # "remote_remove" => log[i].ok
     /\ repo.head # 0
     /\ remote_ref[inv.branch] = repo.head

\* what a successful command left behind is still there
EffectPresent(cmd) ==
  CASE cmd = "init" -> exists(tree, git_dir)
    [] cmd = "checkout" -> repo.branch = inv.branch
    [] cmd = "add" -> repo.index = inv.snapshot
    [] cmd = "commit" -> repo.head # 0 /\ repo.headTree = inv.snapshot
    [] cmd = "remote_remove" ->
         \/ repo.origin = ""
         \/ \E j \in DOMAIN log : log[j].cmd = "remote_add" /\ log[j].ok
    [] cmd = "remote_add" -> repo.origin = inv.url
    [] cmd = "push" -> remote_ref[inv.branch] = repo.head /\ repo.upstream = inv.branch
    [] OTHER -> TRUE

(* C2: the publisher's commands run in the order init, checkout, add, commit,
   remote remove, remote add, push, each at most once; a failed step is the
   last command run, the failure reaches the caller (and ends main with a
   non-zero status), and what the earlier steps did stays done. *)
C2_LinearNoRetryNoRollback ==
  /\ \A i, j \in DOMAIN log :
       i < j => StepIndex(log[i].cmd) < StepIndex(log[j].cmd)
  /\ \A i \in DOMAIN log :
       (log[i].cmd \in ContractSteps /\ ~log[i].ok)
         => /\ i = Len(log)
            /\ pubpc = "raised"
            /\ inv.exc # ""
            /\ inv.failedAt = log[i].cmd
  /\ \A i \in DOMAIN log : log[i].ok => EffectPresent(log[i].cmd)
  /\ (pc = "exited" /\ pubpc = "raised" /\ inv.caller = "main") => exit_status = "1"

\* a push failed, and the commit made before it is still there
C2_Witness ==
  /\ pubpc = "raised"
  /\ log # <<>>
  /\ Last(log).cmd = "push"
  /\ ~Last(log).ok
  /\ \E i \in DOMAIN log : log[i].cmd = "commit" /\ log[i].ok
  /\ repo.head # 0

(* C3: an invocation that failed after the commit step leaves the repository
   committed and reports the failure; and an invocation that follows one that
   failed at or after the commit step, on an unchanged package directory and
   with everything now able to succeed, does not fail at the commit step. *)
C3_RerunDoesNotFailAtCommit ==
  /\ (pubpc = "raised" /\ inv.failedAt \in AfterCommit)
       => /\ repo.head # 0
          /\ repo.headTree = inv.snapshot
          /\ inv.exc # ""
  /\ (/\ pubpc = "raised"
      /\ inv.prevFailedAt \in AfterCommit \cup {"commit"}
      /\ inv.unchanged
      /\ EnvAllowedAll)
       => inv.failedAt # "commit"

(* C4: when publishing was requested and a publisher step failed, main has
   printed the hint and ended with a non-zero status; when it was not
   requested, main ends with status 0 and no git command was run. *)
C4_FailureHintAndStatus ==
  /\ (pc = "exited" /\ args.push_repo # "" /\ inv.caller = "main" /\ pubpc = "raised")
       => hint /\ exit_status = "1"
  /\ (pc \in {"packaged", "exited"} /\ args.push_repo = "" /\ nDirect = 0)
       => /\ log = <<>>
          /\ pubpc = "idle"
          /\ pc = "exited" => exit_status = "0"

(* C5: right after the package assembler has run, the package directory holds
   exactly the files of this run and the archive only entries of this run,
   whatever was at the target paths before. *)
C5_TargetsFullyReplaced ==
  pc = "packaged"
    => /\ PackageFiles = {repo_dir \o e : e \in CurrentRunEntries}
       /\ zip.exists
       /\ Range(zip.entries) \subseteq CurrentRunEntries
       /\ tree \cap StalePaths = {}

\* the old directory held a stale file and a .git directory
C5_Witness ==
  /\ pc = "packaged"
  /\ {repo_dir \o <<"stale.txt">>, git_head} \subseteq removed
  /\ zip.exists

(* C6: when the archive has just been created, every file of the package
   directory has exactly one entry, named by its path relative to the
   directory; every entry names a file; no entry name is absolute or starts
   with the directory's own name. *)
C6_ArchiveMirrorsDirectory ==
  pc = "packaged"
    => /\ \A p \in PackageFiles :
            Cardinality({i \in DOMAIN zip.entries : repo_dir \o zip.entries[i] = p}) = 1
       /\ \A i \in DOMAIN zip.entries :
            /\ zip.entries[i] # <<>>
            /\ repo_dir \o zip.entries[i] \in tree
            /\ zip.entries[i][1] \notin {"/", name(repo_dir)}

C6_Witness ==
  /\ pc = "packaged"
  /\ Len(zip.entries) = Cardinality(CurrentRunEntries)
  /\ <<"images", "uniform_table.png">> \in Range(zip.entries)

(* C7: every run of the pipeline on the output directory writes the same
   README and QUESTIONS text and an archive with the same set of entry
   paths, none of them version-control metadata. *)
C7_RunsRepeatable ==
  \A i, j \in DOMAIN runLog :
    /\ runLog[i].readme = runLog[j].readme
    /\ runLog[i].questions = runLog[j].questions
    /\ runLog[i].entries = runLog[j].entries
    /\ \A e \in runLog[i].entries : ".git" \notin Range(e)

\* the second run found the .git directory the first run's publisher made
C7_Witness ==
  /\ Len(runLog) >= 2
  /\ runLog[1].push
  /\ ~runLog[1].hadGit
  /\ runLog[2].hadGit

\* the tags of a question record, the two option markers taken as one
TagShape(block) ==
  [i \in DOMAIN block |->
     IF block[i].tag \in {"@option", "@@option"} THEN "option" ELSE block[i].tag]

RecordShape ==
  <<"@question", "@instruction", "@difficulty", "@Order", "option", "option",
    "option", "option", "option", "@explanation", "", "@subject", "@unit",
    "@topic", "@plusmarks">>

(* C8: for each of the two questions the lines of QUESTIONS.md, from the
   question line to the plusmarks line, are the lines of the document's
   paragraphs, text and order alike; each record has the fixed tag sequence,
   five option lines labelled (A) to (E), and one doubled marker. *)
C8_MarkdownMatchesDocument ==
  pc = "packaged"
    => /\ Cardinality(TagPositions(DocLines(docx), "@question")) = 2
       /\ Cardinality(TagPositions(TextLines(questions_md), "@question")) = 2
       /\ \A q \in 1 .. 2 :
            LET d == QuestionBlock(DocLines(docx), q)
                m == QuestionBlock(TextLines(questions_md), q)
            IN /\ m = d
               /\ TagShape(m) = RecordShape
               /\ [i \in DOMAIN OptionLines(m) |-> OptionLines(m)[i].label]
                    = <<"A", "B", "C", "D", "E">>
               /\ Len(CorrectOptions(m)) = 1
               /\ m[4].nums = <<q>>

C8_Witness ==
  /\ pc = "packaged"
  /\ docx # <<>>
  /\ Len(QuestionBlock(TextLines(questions_md), 2)) = Len(RecordShape)
  /\ QuestionBlock(DocLines(docx), 1)[7].tag = "@@option"

(* C9: rows=2, cols=4, radius=2 cm gives a canvas twice as wide as high and
   eight circles on a grid whose neighbours are one diameter apart along both
   axes; no two circles overlap and every circle lies within the canvas. *)
C9_PackedGrid ==
  (spheres.drawn /\ call = [rows |-> 2, cols |-> 4, radius_cm |-> 200])
    => LET cs == spheres.circles
           px(n) == 100 * n
       IN /\ spheres.width_px = 2 * spheres.height_px
          /\ spheres.xlim = spheres.width_px
          /\ spheres.ylim = spheres.height_px
          /\ {<<c.i, c.j>> : c \in cs} = (0 .. 1) \X (0 .. 3)
          /\ Cardinality(cs) = 8
          /\ \A c, d \in cs :
               /\ (d.i = c.i /\ d.j = c.j + 1) => (d.cx - c.cx = 2 * c.r /\ d.cy = c.cy)
               /\ (d.j = c.j /\ d.i = c.i + 1) => (d.cy - c.cy = 2 * c.r /\ d.cx = c.cx)
               /\ c # d => (d.cx - c.cx) * (d.cx - c.cx) + (d.cy - c.cy) * (d.cy - c.cy)
                             >= (c.r + d.r) * (c.r + d.r)
          /\ \A c \in cs :
               /\ 2 * c.r = px(4 * scale)
               /\ 0 <= c.cx - c.r /\ c.cx + c.r <= px(spheres.xlim)
               /\ 0 <= c.cy - c.r /\ c.cy + c.r <= px(spheres.ylim)

C9_Witness ==
  /\ spheres.drawn
  /\ call = [rows |-> 2, cols |-> 4, radius_cm |-> 200]
  /\ spheres.width_px = 480
  /\ Cardinality(spheres.circles) = 8

\* the answer of a question, from the data it is about
DerivedAnswer(q) ==
  IF q = 1 THEN <<Len(shirts) * Len(pants) * Len(hats)>>
  ELSE LET diameter == (2 * call.radius_cm) \div 100
       IN <<diameter, call.rows * diameter, call.cols * diameter>>

\* the last n numerals of a line
LastNums(l, n) == SubSeq(l.nums, Len(l.nums) - n + 1, Len(l.nums))

(* C10: in the document and in the markdown, the option carrying the doubled
   marker of each question has the value the question's data and its own
   explanation give: 4 * 3 * 3 = 36, and 4 x 8 x 16. *)
C10_MarkedOptionIsTheAnswer ==
  pc = "packaged"
    => \A q \in 1 .. 2 :
         \A lines \in {DocLines(docx), TextLines(questions_md)} :
           LET b == QuestionBlock(lines, q)
               answer == DerivedAnswer(q)
           IN /\ LastNums(b[11], Len(answer)) = answer
              /\ Len(CorrectOptions(b)) = 1
              /\ CorrectOptions(b)[1].nums = answer

=============================================================================
